---- MODULE Spec2Model ----
(***************************************************************************)
(* LightSPA (src/hugo-spa.js): client-side navigation for Hugo sites.      *)
(*                                                                         *)
(* The model holds the controller's own field (currentIndex), the parts of *)
(* the browser it reads and writes (session history, location, document    *)
(* title, the inner markup / opacity of the main content element, the      *)
(* viewport scroll offset, the attributes of an external anchor) and the   *)
(* navigateTo() calls that are suspended at `await fetch(url)`.            *)
(*                                                                         *)
(* Every handler runs to its next suspension point in one step: JavaScript *)
(* is single threaded, so a handler is only interleaved with others at an  *)
(* await.  navigateTo() has its awaits at lines 131 and 133 and touches no *)
(* state between them, so its continuation is one step.                    *)
(*                                                                         *)
(* URLs are [host, path, frag]; the scheme is taken to be fixed, so that   *)
(* host equality is origin equality, as the README's usage assumes.        *)
(* Markup and titles are opaque serialised values (tuples); <<>> is the    *)
(* empty string.  A value that may be null is a sequence of length <= 1.   *)
(***************************************************************************)
EXTENDS Integers, Sequences, FiniteSets, TLC

\* ------------------------------------------------------------------ bounds
\* Navigations (same-origin clicks) started in one run.
MaxClicks == 2
\* Largest viewport scroll coordinate the user reaches.
MaxScroll == 1
\* History entries without a state record that other scripts push.
MaxForeign == 1

\* ---------------------------------------------------------------- the site
SiteHost == "site.example"
OtherHost == "other.example"

Url(h, p, f) == [host |-> h, path |-> p, frag |-> f]

IndexUrl == Url(SiteHost, "/index", "")
AboutUrl == Url(SiteHost, "/about", "")
ExternalUrl == Url(OtherHost, "/", "")

\* The hrefs of the same-host anchors of the site, and of its external anchor.
InternalUrls == {IndexUrl, AboutUrl}

\* The versions of a page the server answers with over time.
Versions == {1, 2}

ScrollPositions == {<<0, y>> : y \in 0..MaxScroll}

Origin == <<0, 0>>

\* A nullable value: <<>> is null / undefined, <<v>> is v.
Null == <<>>

Some(v) == <<v>>

\* The empty string (markup).
EmptyMarkup == <<>>

\* ------------------------------------------------------- fetched documents
\* Version v of the page at path p, as the server renders it.  Odd versions
\* put the main element first; even versions put a non-matching element
\* before it.
PageTitle(p, v) == <<p, v>>

PageMarkup(p, v) == <<p, v, "body">>

MainElement(inner) == [main |-> TRUE, inner |-> inner]

AsideElement(inner) == [main |-> FALSE, inner |-> inner]

PageDoc(p, v) ==
    [title |-> PageTitle(p, v),
     body  |-> IF v % 2 = 1
               THEN <<MainElement(PageMarkup(p, v))>>
               ELSE <<AsideElement(<<p, v, "aside">>), MainElement(PageMarkup(p, v))>>]

\* A page of the site whose markup has no element matching the selector.
NoMainDoc(p) == [title |-> <<p, 0>>, body |-> <<AsideElement(<<p, 0, "aside">>)>>]

\* A page whose main element is empty.
EmptyMainDoc(p) == [title |-> <<p, 0>>, body |-> <<MainElement(EmptyMarkup)>>]

DocsAt(p) == {PageDoc(p, v) : v \in Versions} \cup {NoMainDoc(p), EmptyMainDoc(p)}

\* What `await fetch(url)` can produce; the fragment is not sent to the server.
\* status 0 stands for a rejected promise (transport error).
Responses(url) ==
    {[status |-> 200, doc |-> d] : d \in DocsAt(url.path)}
    \cup {[status |-> s, doc |-> PageDoc(url.path, 1)] : s \in {404, 500}}
    \cup {[status |-> 0, doc |-> NoMainDoc(url.path)]}

\* response.ok
ResponseOk(r) == r.status >= 200 /\ r.status <= 299

\* doc.querySelector(mainContentSelector): the first matching element, or null.
RECURSIVE QuerySelectorFrom(_, _)
QuerySelectorFrom(body, i) ==
    IF i > Len(body) THEN Null
    ELSE IF body[i].main THEN Some(body[i])
    ELSE QuerySelectorFrom(body, i + 1)

QuerySelector(doc) == QuerySelectorFrom(doc.body, 1)

\* ------------------------------------------------------------------- state
VARIABLES
    constructed,   \* new LightSPA() has run
    hasMain,       \* the live document has an element matching the selector
    listening,     \* the click and popstate listeners are registered
    hist,          \* session history: slots [url, state, left]
    pos,           \* the active slot
    content,       \* mainContent.innerHTML
    title,         \* document.title
    opacity,       \* mainContent.style.opacity
    scroll,        \* <<window.scrollX, window.scrollY>>
    currentIndex,  \* this.currentIndex
    inflight,      \* navigateTo() calls suspended at the fetch
    extAnchor,     \* target and rel of the external anchor
    started,       \* number of navigations started by a click
    foreign,       \* number of foreign history entries pushed
    departed,      \* the slot the last push left and the scroll offset live then (observation only)
    last           \* what the last handler did (observation only)

vars == <<constructed, hasMain, listening, hist, pos, content, title, opacity,
          scroll, currentIndex, inflight, extAnchor, started, foreign, departed,
          last>>

\* this.currentIndex before init() assigns it.
Undefined == -1

\* window.location.href
Location == hist[pos].url

\* One slot of the session history.  `left` is observation only: for a slot
\* that carries cached content, the markup and title that were live when the
\* slot was last left.
Slot(u, s) == [url |-> u, state |-> s, left |-> Null]

Live == [content |-> content, title |-> title]

\* The slot has a state record whose content is a non-empty string.
HasCache(slot) == slot.state # Null /\ slot.state[1].content # EmptyMarkup

\* The stack h as its active slot p is left.
Leave(h, p) == IF HasCache(h[p]) THEN [h EXCEPT ![p].left = Some(Live)] ELSE h

\* What one step did, for the properties to look at.  event is the detail of
\* the spaContentUpdated event the step dispatched, prevented whether it
\* called e.preventDefault(), fetched whether it called fetch(), swapped
\* whether it assigned mainContent.innerHTML, response what the fetch it
\* resumed from produced, before what was live when that call started.
Other ==
    [op |-> "other", url |-> IndexUrl, pushState |-> FALSE, prevented |-> FALSE,
     fetched |-> FALSE, swapped |-> FALSE, event |-> Null, response |-> Null,
     before |-> Null]

Init ==
    /\ constructed = FALSE
    /\ hasMain \in BOOLEAN
    /\ listening = FALSE
    /\ hist = <<Slot(IndexUrl, Null)>>
    /\ title = PageTitle(IndexUrl.path, 1)
    /\ content = IF hasMain THEN PageMarkup(IndexUrl.path, 1) ELSE EmptyMarkup
    /\ pos = 1
    /\ opacity = ""
    /\ scroll \in ScrollPositions
    /\ currentIndex = Undefined
    /\ inflight = <<>>
    /\ extAnchor = [target |-> "", rel |-> ""]
    /\ started = 0
    /\ foreign = 0
    /\ departed = Null
    /\ last = Other

\* --------------------------------------------------------- history (browser)
ReplaceStatePushing(h, p, state, u) == Append(SubSeq(h, 1, p), Slot(u, Some(state)))

\* history.replaceState(state, title, url)
ReplaceState(h, p, state, u) == [h EXCEPT ![p].url = u, ![p].state = Some(state)]

PushStateReplacing(h, p, state, u) == ReplaceState(h, p, state, u)

PushStateKeepingUrl(h, p, state, u) ==
    Append(SubSeq(Leave(h, p), 1, p), Slot(h[p].url, Some(state)))

\* history.pushState(state, title, url): drops the slots after the active one
\* and appends a new one, which becomes active.
PushState(h, p, state, u) ==
    Append(SubSeq(Leave(h, p), 1, p), Slot(u, Some(state)))

\* ------------------------------------------------------------ constructor
\* getInitialState() / the literal at lines 70-77.
InitialState ==
    [url |-> Location, title |-> title, content |-> content,
     scrollPosition |-> scroll, isInitialState |-> TRUE, index |-> 0]

MainContentAssumed == TRUE

\* init, lines 55 and 59: document.querySelector(mainContentSelector) found
\* an element.
MainContentFound == hasMain

\* constructor() -> init()
Construct ==
    /\ ~constructed
    /\ constructed' = TRUE
    /\ IF ~MainContentFound
       THEN /\ listening' = FALSE
            /\ UNCHANGED <<hist, currentIndex>>
       ELSE /\ listening' = TRUE
            /\ hist' = ReplaceState(hist, pos, InitialState, Location)
            /\ currentIndex' = 0
    /\ last' = [Other EXCEPT !.op = "init"]
    /\ UNCHANGED <<hasMain, pos, content, title, opacity, scroll, inflight,
                   extAnchor, started, foreign, departed>>

\* ------------------------------------------------------------- navigateTo
\* The url, state pairs of the history stack, without the observation field.
Stack(h) == [i \in 1..Len(h) |-> [url |-> h[i].url, state |-> h[i].state]]

\* A navigateTo() call suspended at the fetch.  `before` is observation only:
\* what was displayed and stored when the call started.
Request(u, push) ==
    [url |-> u, pushState |-> push,
     before |-> [content |-> content, title |-> title, stack |-> Stack(hist),
                 pos |-> pos, currentIndex |-> currentIndex]]

IsDuplicateNavigationUnguarded(u, push, href) == FALSE

IsDuplicateNavigationAnyPush(u, push, href) == u = href

\* navigateTo, line 122: the duplicate-navigation guard.  href is
\* window.location.href at the time of the call.
IsDuplicateNavigation(u, push, href) == u = href /\ ~push

NavigateToOnceInFlight(u, push, href) ==
    IF IsDuplicateNavigation(u, push, href) \/ \E i \in 1..Len(inflight) : inflight[i].url = u
    THEN UNCHANGED <<opacity, inflight>>
    ELSE /\ opacity' = "0.5"
         /\ inflight' = Append(inflight, Request(u, push))

\* navigateTo up to `await fetch(url)`: returns at the guard, or shows the
\* loading state and suspends.
NavigateTo(u, push, href) ==
    IF IsDuplicateNavigation(u, push, href)
    THEN UNCHANGED <<opacity, inflight>>
    ELSE /\ opacity' = "0.5"
         /\ inflight' = Append(inflight, Request(u, push))

RemoveAtAbortingOthers(s, i) == <<>>

RemoveAt(s, i) == SubSeq(s, 1, i - 1) \o SubSeq(s, i + 1, Len(s))

PushedStateBeforeSwap(u, t, c, idx) ==
    [url |-> u, title |-> title, content |-> content, scrollPosition |-> Origin,
     isInitialState |-> FALSE, index |-> idx]

PushedStatePostIncrement(u, t, c, idx) ==
    [url |-> u, title |-> t, content |-> c, scrollPosition |-> Origin,
     isInitialState |-> FALSE, index |-> idx - 1]

\* The state object navigateTo builds at lines 149-155.  (isInitialState is
\* not set on it; an undefined field reads as false.)
PushedState(u, t, c, idx) ==
    [url |-> u, title |-> t, content |-> c, scrollPosition |-> Origin,
     isInitialState |-> FALSE, index |-> idx]

FetchSucceedsWithoutOkCheck(r) == QuerySelector(r.doc) # Null

\* navigateTo, lines 132-141: does the try block reach "Update the page"?
FetchSucceeds(r) == ResponseOk(r) /\ QuerySelector(r.doc) # Null

OpacityAfterErrorLeft(o) == o

\* The catch block, lines 170-173 (o is the opacity when the error is caught).
OpacityAfterError(o) == "1"

\* navigateTo from the fetch's settlement to the end, for the i-th suspended
\* call and the response r.
FetchSettles(i, r) ==
    LET req == inflight[i]
        did == [Other EXCEPT !.url = req.url, !.pushState = req.pushState,
                             !.response = Some(r), !.before = Some(req.before)]
    IN
    /\ inflight' = RemoveAt(inflight, i)
    /\ opacity' = IF FetchSucceeds(r) THEN "1" ELSE OpacityAfterError(opacity)
    /\ IF FetchSucceeds(r)
       THEN LET newContent == QuerySelector(r.doc)[1] IN
            /\ content' = newContent.inner
            /\ title' = r.doc.title
            /\ IF req.pushState
               THEN /\ currentIndex' = currentIndex + 1
                    /\ hist' = PushState(hist, pos,
                                  PushedState(req.url, title', content',
                                              currentIndex'),
                                  req.url)
                    /\ pos' = pos + 1
                    /\ scroll' = Origin
                    /\ departed' = Some([from |-> pos, scroll |-> scroll])
               ELSE UNCHANGED <<currentIndex, hist, pos, scroll, departed>>
            /\ last' = [did EXCEPT !.op = "settle", !.swapped = TRUE,
                          !.event = Some([url |-> req.url,
                                          pushState |-> req.pushState])]
       ELSE /\ UNCHANGED <<content, title, currentIndex, hist, pos, scroll, departed>>
            /\ last' = [did EXCEPT !.op = "fail"]
    /\ UNCHANGED <<constructed, hasMain, listening, extAnchor, started, foreign>>

FetchResponds ==
    \E i \in 1..Len(inflight) : \E r \in Responses(inflight[i].url) : FetchSettles(i, r)

\* ------------------------------------------------------------ handleClick
IsInternalLinkAnyHost(href) == TRUE

\* isInternalLink(link)
IsInternalLink(href) == href.host = Location.host

\* handleClick for a click inside the anchor with the given href.
HandleClick(href) ==
    /\ listening
    /\ IsInternalLink(href) => started < MaxClicks
    /\ IF IsInternalLink(href)
       THEN /\ NavigateTo(href, TRUE, Location)
            /\ started' = started + 1
            /\ last' = [Other EXCEPT !.op = "click", !.url = href, !.pushState = TRUE,
                          !.prevented = TRUE,
                          !.fetched = Len(inflight') > Len(inflight)]
            /\ UNCHANGED extAnchor
       ELSE /\ extAnchor' = [target |-> "_blank", rel |-> "noopener noreferrer"]
            /\ last' = [Other EXCEPT !.op = "click", !.url = href]
            /\ UNCHANGED <<opacity, inflight, started>>
    /\ UNCHANGED <<constructed, hasMain, listening, hist, pos, content, title,
                   scroll, currentIndex, foreign, departed>>

ClickAnchor == \E href \in InternalUrls \cup {ExternalUrl} : HandleClick(href)

\* handleClick, line 95: the click was not inside an anchor.
ClickOutsideAnchor ==
    /\ listening
    /\ last' = Other
    /\ UNCHANGED <<constructed, hasMain, listening, hist, pos, content, title,
                   opacity, scroll, currentIndex, inflight, extAnchor, started,
                   foreign, departed>>

\* A click on an anchor while no click listener is registered: the browser
\* does what it does by default and no code of LightSPA runs.  (A default
\* navigation to another document ends the session of this one; the step
\* stands for the click itself.)
UnhandledClick ==
    /\ constructed
    /\ ~listening
    /\ \E href \in InternalUrls \cup {ExternalUrl} :
          last' = [Other EXCEPT !.op = "unhandled", !.url = href]
    /\ UNCHANGED <<constructed, hasMain, listening, hist, pos, content, title,
                   opacity, scroll, currentIndex, inflight, extAnchor, started,
                   foreign, departed>>

\* ---------------------------------------------------------- handlePopState
RestoredIndexKept(st, idx) == idx

\* Line 187: this.currentIndex = event.state.index (idx is the counter before).
RestoredIndex(st, idx) == st.index

RestoredTitleKept(st, t) == t

\* Line 191: document.title = event.state.title (t is the title before).
RestoredTitle(st, t) == st.title

\* handlePopState(event), with event.state the record of the slot the browser
\* has just made active and href the location it has just set.
HandlePopState(state, href) ==
    LET did == [Other EXCEPT !.op = "popstate", !.url = href] IN
    IF state = Null
    THEN /\ NavigateTo(href, FALSE, href)
         /\ last' = [did EXCEPT !.fetched = Len(inflight') > Len(inflight)]
         /\ UNCHANGED <<currentIndex, content, title, scroll>>
    ELSE LET st == state[1] IN
         /\ currentIndex' = RestoredIndex(st, currentIndex)
         /\ IF st.content # EmptyMarkup
            THEN /\ content' = st.content
                 /\ title' = RestoredTitle(st, title)
                 /\ opacity' = "1"
                 /\ scroll' = st.scrollPosition
                 /\ last' = [did EXCEPT !.swapped = TRUE]
                 /\ UNCHANGED inflight
            ELSE /\ NavigateTo(st.url, FALSE, href)
                 /\ last' = [did EXCEPT !.fetched = Len(inflight') > Len(inflight)]
                 /\ UNCHANGED <<content, title, scroll>>

\* The user goes back or forward to slot t; the browser makes it active and
\* fires popstate.
Traverse(t) ==
    /\ constructed
    /\ t \in 1..Len(hist)
    /\ t # pos
    /\ pos' = t
    /\ hist' = Leave(hist, pos)
    /\ departed' = Null
    /\ IF listening
       THEN HandlePopState(hist[t].state, hist[t].url)
       ELSE /\ last' = Other
            /\ UNCHANGED <<currentIndex, content, title, scroll, opacity, inflight>>
    /\ UNCHANGED <<constructed, hasMain, listening, extAnchor, started, foreign>>

BackOrForward == \E t \in 1..Len(hist) : Traverse(t)

\* ------------------------------------------------------------- environment
\* Something other than LightSPA adds a same-document history entry that has
\* no state record (the case handlePopState tests for at line 181): an entry
\* for a fragment of the current page.  No popstate is fired for it.
FragmentUrl(u) == [u EXCEPT !.frag = "section"]

ForeignPush ==
    /\ constructed
    /\ foreign < MaxForeign
    /\ hist' = Append(SubSeq(Leave(hist, pos), 1, pos),
                      Slot(FragmentUrl(Location), Null))
    /\ pos' = pos + 1
    /\ foreign' = foreign + 1
    /\ departed' = Null
    /\ last' = Other
    /\ UNCHANGED <<constructed, hasMain, listening, content, title, opacity,
                   scroll, currentIndex, inflight, extAnchor, started>>

\* The user scrolls the viewport.
UserScroll ==
    /\ constructed
    /\ \E s \in ScrollPositions : s # scroll /\ scroll' = s
    /\ last' = Other
    /\ UNCHANGED <<constructed, hasMain, listening, hist, pos, content, title,
                   opacity, currentIndex, inflight, extAnchor, started, foreign,
                   departed>>

\* The controller with its clicks, fetches and traversals.
Next ==
    \/ Construct
    \/ ClickAnchor
    \/ ClickOutsideAnchor
    \/ UnhandledClick
    \/ FetchResponds
    \/ BackOrForward

Spec == Init /\ [][Next]_vars

\* The same, with a user who also scrolls.
NextScroll ==
    \/ Next
    \/ UserScroll

SpecScroll == Init /\ [][NextScroll]_vars

\* The same, with history entries that LightSPA did not create.
NextForeign ==
    \/ Next
    \/ ForeignPush

SpecForeign == Init /\ [][NextForeign]_vars

\* Foreign entries on a page where init() found no main element.
InertForeignPush == ~listening /\ ForeignPush

\* The controller, with foreign history entries on pages it left alone.
NextInert ==
    \/ Next
    \/ InertForeignPush

SpecInert == Init /\ [][NextInert]_vars

\* A click on an anchor to a fragment of the current document
\* (<a href="#section">: link.href is the location with that fragment).
ClickFragmentAnchor == HandleClick(FragmentUrl(Location))

\* The controller, on pages that also have fragment anchors.
NextFragment ==
    \/ Next
    \/ ClickFragmentAnchor

SpecFragment == Init /\ [][NextFragment]_vars

\* ================================================================ properties
\* The step just taken resumed a navigateTo() call from its fetch.
Settled == last.response # Null

\* The fetch that call resumed from succeeded (a 2xx status) with a document
\* that has the content region.
GotPage ==
    /\ Settled
    /\ last.response[1].status \in 200..299
    /\ \E i \in 1..Len(last.response[1].doc.body) : last.response[1].doc.body[i].main

\* The content region of a fetched document: its first matching element.
RegionOf(doc) ==
    doc.body[CHOOSE i \in 1..Len(doc.body) :
                 doc.body[i].main /\ \A j \in 1..(i - 1) : ~doc.body[j].main]

\* C1: a click on a same-origin anchor suppresses the default navigation and
\* starts a navigation to the anchor's URL; when its fetch succeeds with a
\* document that has the content region, the location is the anchor's URL,
\* the title the fetched document's title and the content region's markup the
\* inner markup of the fetched document's content region.
C1_ClickShowsFetchedPage ==
    /\ (last.op = "click" /\ last.url.host = Location.host) =>
          /\ last.prevented
          /\ inflight # <<>>
          /\ inflight[Len(inflight)].url = last.url
          /\ inflight[Len(inflight)].pushState
    /\ (GotPage /\ last.pushState) =>
          /\ Location = last.url
          /\ title = last.response[1].doc.title
          /\ content = RegionOf(last.response[1].doc).inner

C1_Witness ==
    /\ GotPage
    /\ last.pushState
    /\ last.url = AboutUrl
    /\ Location = AboutUrl
    /\ content = PageMarkup("/about", 2)
    /\ title = PageTitle("/about", 2)

\* The fetch that call resumed from failed: a non-success status, a transport
\* error, or a document without the content region.
FetchFailed == Settled /\ ~GotPage

\* C2 (as claimed): after a failed navigation, content, title, history and
\* currentIndex are what they were immediately before the navigation
\* started, and no notification was dispatched.
C2_FailureRestoresStart ==
    FetchFailed =>
        /\ content = last.before[1].content
        /\ title = last.before[1].title
        /\ Stack(hist) = last.before[1].stack
        /\ pos = last.before[1].pos
        /\ currentIndex = last.before[1].currentIndex
        /\ last.event = Null

\* C2 (amended): the step that handles a failed fetch changes none of
\* content, title, history (entries and active position) and currentIndex,
\* dispatches no notification and clears the pending indicator.
C2_FailureChangesNothing ==
    [][(last'.response # Null /\ ~GotPage') =>
          /\ content' = content
          /\ title' = title
          /\ Stack(hist') = Stack(hist)
          /\ pos' = pos
          /\ currentIndex' = currentIndex
          /\ last'.event = Null
          /\ opacity' = "1"]_vars

C2_Witness ==
    /\ FetchFailed
    /\ last.response[1].status = 500
    /\ content # last.before[1].content
    /\ Len(hist) = 2

\* C3: a traversal to an entry that carries cached content sets the content
\* region and the title to what was live when that entry was last active,
\* and issues no fetch.
C3_TraversalReplaysCache ==
    (last.op = "popstate" /\ HasCache(hist[pos])) =>
        /\ hist[pos].left # Null
        /\ content = hist[pos].left[1].content
        /\ title = hist[pos].left[1].title
        /\ ~last.fetched

\* Home -> About -> About (a later version), back twice: Home is restored.
C3_Witness ==
    /\ last.op = "popstate"
    /\ Len(hist) = 3
    /\ pos = 1
    /\ inflight = <<>>
    /\ HasCache(hist[1]) /\ HasCache(hist[2]) /\ HasCache(hist[3])
    /\ hist[2].state[1].content # hist[3].state[1].content
    /\ content = PageMarkup("/index", 1)
    /\ started = 2

\* C4 (as claimed): after a forward navigation from A to B, one traversal
\* back to A leaves the viewport at the scroll offset that was live at A
\* immediately before the navigation to B.
C4_BackRestoresLiveScroll ==
    [][(/\ last'.op = "popstate"
        /\ departed # Null
        /\ pos' = departed[1].from
        /\ HasCache(hist[pos']))
       => scroll' = departed[1].scroll]_vars

\* C5: with only LightSPA's own entries in the history, the entry at depth
\* i above the initial one carries ordinal i (so N pushes carry 1..N in push
\* order, also when navigations overlap or fail in between), and a traversal
\* sets currentIndex to the ordinal the surfaced entry was created with.
C5_OrdinalsFollowPushOrder ==
    listening =>
        /\ \A i \in 1..Len(hist) :
              hist[i].state # Null /\ hist[i].state[1].index = i - 1
        /\ (last.op = "popstate") => currentIndex = pos - 1

\* Two overlapping navigations, both started at the initial entry, have both
\* pushed.
C5_Witness ==
    /\ GotPage
    /\ last.pushState
    /\ Len(last.before[1].stack) = 1
    /\ Len(hist) = 3
    /\ hist[2].state[1].index = 1
    /\ hist[3].state[1].index = 2
    /\ currentIndex = 2

\* C6 (as claimed): every step that swaps the content region, a replay of
\* cached content on traversal included, dispatches spaContentUpdated with
\* the url.
C6_EverySwapNotifies ==
    last.swapped => (last.event # Null /\ last.event[1].url = last.url)

\* C7: handlePopState's navigateTo(url, false) with url the current location
\* issues no fetch, leaves the pending indicator, content, title and the
\* history entries as they are, dispatches nothing, and leaves currentIndex
\* as handlePopState set it.
C7_NavigateToCurrentIsNoOp ==
    [][(last'.op = "popstate" /\ ~HasCache(hist[pos'])) =>
          /\ inflight' = inflight
          /\ opacity' = opacity
          /\ content' = content
          /\ title' = title
          /\ Stack(hist') = Stack(hist)
          /\ last'.event = Null
          /\ currentIndex' = IF hist[pos'].state = Null THEN currentIndex
                              ELSE hist[pos'].state[1].index]_vars

\* A traversal has surfaced an entry whose cached content is empty.
C7_Witness ==
    /\ last.op = "popstate"
    /\ hist[pos].state # Null
    /\ hist[pos].state[1].content = EmptyMarkup
    /\ content # EmptyMarkup
    /\ inflight = <<>>

\* C8: a click on an external anchor does not suppress the default
\* navigation, leaves the anchor with target _blank and rel "noopener
\* noreferrer", issues no fetch, pushes nothing and leaves content, title and
\* currentIndex as they are.
C8_ExternalClickOnlyHardens ==
    [][(last'.op = "click" /\ last'.url.host # Location.host) =>
          /\ ~last'.prevented
          /\ extAnchor' = [target |-> "_blank", rel |-> "noopener noreferrer"]
          /\ inflight' = inflight
          /\ Stack(hist') = Stack(hist)
          /\ pos' = pos
          /\ content' = content
          /\ title' = title
          /\ currentIndex' = currentIndex]_vars

C8_Witness ==
    /\ last.op = "click"
    /\ last.url = ExternalUrl
    /\ extAnchor.target = "_blank"
    /\ Len(hist) = 2
    /\ Len(inflight) = 1

\* C9 (as claimed): when a traversal surfaces a slot with no state record, a
\* fetch of the current location is issued (without pushState).
C9_NoRecordRefetches ==
    (last.op = "popstate" /\ hist[pos].state = Null) =>
        /\ last.fetched
        /\ \E i \in 1..Len(inflight) :
              inflight[i].url = Location /\ ~inflight[i].pushState

\* C10 (as claimed): a click whose target already has a navigation in flight
\* is dropped, and two fetches are never in flight.
C10_SecondClickDropped ==
    [][/\ Len(inflight') <= 1
       /\ (/\ last'.op = "click"
           /\ \E i \in 1..Len(inflight) : inflight[i].url = last'.url)
          => inflight' = inflight]_vars

\* C10 (amended): a click on a same-origin anchor always starts a fetch of
\* its own, whatever is in flight, and every navigation started by a click
\* whose fetch succeeds pushes exactly one entry above the active one.
C10_EveryClickFetches ==
    [][/\ (last'.op = "click" /\ last'.url.host = Location.host) =>
             /\ Len(inflight') = Len(inflight) + 1
             /\ inflight'[Len(inflight')].url = last'.url
             /\ SubSeq(inflight', 1, Len(inflight)) = inflight
       /\ (last'.response # Null /\ GotPage' /\ last'.pushState) =>
             /\ Len(hist') = pos + 1
             /\ pos' = pos + 1
             /\ SubSeq(Stack(hist'), 1, pos) = SubSeq(Stack(hist), 1, pos)]_vars

\* Two clicks on the same anchor overlapped and each pushed an entry.
C10_Witness ==
    /\ GotPage
    /\ last.pushState
    /\ Len(last.before[1].stack) = 1
    /\ Len(hist) = 3
    /\ hist[2].url = hist[3].url
    /\ inflight = <<>>

\* The step being taken completes a click navigation: it resumes a call made
\* with pushState from a 2xx response whose document has the content region.
ClickNavigationCompletes == last'.response # Null /\ GotPage' /\ last'.pushState

C12_InertWithoutMain ==
    (constructed /\ ~hasMain) =>
        /\ ~listening
        /\ \A i \in 1..Len(hist) : hist[i].state = Null
        /\ inflight = <<>>
        /\ started = 0
        /\ ~last.prevented
        /\ ~last.fetched
        /\ last.op # "popstate"
        /\ last.event = Null
        /\ extAnchor = [target |-> "", rel |-> ""]
        /\ content = EmptyMarkup
        /\ title = PageTitle(IndexUrl.path, 1)
        /\ opacity = ""
        /\ currentIndex = Undefined

\* On such a page a same-host anchor was clicked after a traversal back from
\* a foreign entry.
C12_Witness ==
    /\ constructed
    /\ ~hasMain
    /\ last.op = "unhandled"
    /\ last.url = AboutUrl
    /\ Len(hist) = 2
    /\ pos = 1

\* C13: on a document with the content region, init() replaces the record of
\* the active history slot by the initial entry (url the arrival location,
\* title and content the live ones, the live scroll offset, isInitialState,
\* index 0) and leaves depth, active position and location as they were; no
\* later step replaces the record or url of a slot at or below the active
\* one, so the initial entry stays the only one flagged isInitialState.
C13_ReplaceOnceAtStartup ==
    [][/\ (last'.op = "init" /\ hasMain) =>
             /\ Len(hist') = Len(hist)
             /\ pos' = pos
             /\ hist'[pos].url = hist[pos].url
             /\ hist[pos].state = Null
             /\ hist'[pos].state =
                    Some([url |-> hist[pos].url, title |-> title, content |-> content,
                          scrollPosition |-> scroll, isInitialState |-> TRUE,
                          index |-> 0])
             /\ currentIndex' = 0
       /\ (last'.op # "init") =>
             /\ Len(hist') >= pos
             /\ SubSeq(Stack(hist'), 1, pos) = SubSeq(Stack(hist), 1, pos)
             /\ \A i \in 1..Len(hist') :
                   (hist'[i].state # Null /\ hist'[i].state[1].isInitialState)
                      => (i = 1 /\ hist'[1].state = hist[1].state)]_vars

\* Back at the initial entry, two pushes later; it holds the scroll offset
\* of the arrival.
C13_Witness ==
    /\ listening
    /\ last.op = "popstate"
    /\ Len(hist) = 3
    /\ pos = 1
    /\ hist[1].state[1].isInitialState
    /\ hist[1].state[1].index = 0
    /\ hist[1].state[1].scrollPosition = <<0, 1>>
    /\ hist[1].state[1].content = PageMarkup("/index", 1)

\* C14: whenever the active history slot carries a record, currentIndex is
\* that record's index; a traversal onto a record copies its index and
\* leaves every record as it was; a push made while the active slot has
\* index k creates a record with index k + 1.
C14_IndexTracksActiveEntry ==
    /\ [](hist[pos].state # Null => currentIndex = hist[pos].state[1].index)
    /\ [][/\ (last'.op = "popstate" /\ hist'[pos'].state # Null) =>
                /\ currentIndex' = hist[pos'].state[1].index
                /\ Stack(hist') = Stack(hist)
          /\ (ClickNavigationCompletes /\ hist[pos].state # Null) =>
                /\ hist'[pos'].state[1].index = hist[pos].state[1].index + 1
                /\ currentIndex' = currentIndex + 1]_vars

\* A second click was made on the entry with index 1; before its fetch
\* settled the user went back to the initial entry (index 0), so its push
\* replaced the forward entry with a new entry of index 1.
C14_Witness ==
    /\ last.op = "settle"
    /\ last.pushState
    /\ last.before[1].currentIndex = 1
    /\ last.before[1].pos = 2
    /\ started = MaxClicks
    /\ Len(hist) = 2
    /\ pos = 2
    /\ currentIndex = 1
    /\ hist[2].state[1].index = 1
    /\ hist[2].url = last.url

\* C15: starting a navigation while others are in flight leaves them in
\* flight; a fetch that settles while others are in flight removes only its
\* own call, and when it succeeds for a click it shows its document's content
\* region and title and pushes its own entry directly above the entry active
\* at that moment, with the next index.  So overlapping navigations push in
\* the order they complete, and what is shown and active at the end is what
\* the fetch that completed last brought.
C15_OverlappingNavigationsAllComplete ==
    [][/\ (inflight # <<>> /\ Len(inflight') > Len(inflight)) =>
             SubSeq(inflight', 1, Len(inflight)) = inflight
       /\ (Len(inflight) >= 2 /\ last'.response # Null) =>
             \E i \in 1..Len(inflight) :
                /\ inflight[i].url = last'.url
                /\ inflight' = SubSeq(inflight, 1, i - 1) \o
                                  SubSeq(inflight, i + 1, Len(inflight))
       /\ (Len(inflight') < Len(inflight)) => last'.response # Null
       /\ ClickNavigationCompletes =>
             /\ content' = RegionOf(last'.response[1].doc).inner
             /\ title' = last'.response[1].doc.title
             /\ pos' = pos + 1
             /\ Len(hist') = pos'
             /\ hist'[pos'].url = last'.url
             /\ hist'[pos'].state =
                    Some(PushedState(last'.url, title', content', currentIndex + 1))
             /\ currentIndex' = currentIndex + 1]_vars

\* Clicks on /about and /index overlapped; the fetch of /index completed
\* first and the fetch of /about last.
C15_Witness ==
    /\ GotPage
    /\ last.pushState
    /\ last.url = AboutUrl
    /\ Len(last.before[1].stack) = 1
    /\ Len(hist) = 3
    /\ pos = 3
    /\ hist[2].url = IndexUrl
    /\ hist[3].url = AboutUrl
    /\ hist[2].state[1].index = 1
    /\ hist[3].state[1].index = 2
    /\ content = RegionOf(last.response[1].doc).inner
    /\ title = last.response[1].doc.title
    /\ inflight = <<>>

\* C16 (as claimed): whenever a navigateTo() call is suspended at its fetch,
\* the content region has the reduced opacity.
C16_PendingShownWhileInFlight == inflight # <<>> => opacity = "0.5"

\* C17: whenever no navigateTo() call is suspended at its fetch, the content
\* region does not have the reduced opacity; every call that resumes from its
\* fetch, whatever the response (a page, a non-2xx status, a transport error,
\* a document without the content region), and every traversal replayed from
\* the cache, leaves the opacity at '1'.
C17_IdleMeansIndicatorCleared ==
    /\ [](inflight = <<>> => opacity # "0.5")
    /\ [][/\ last'.response # Null => opacity' = "1"
          /\ (last'.op = "popstate" /\ last'.swapped) => opacity' = "1"]_vars

\* The only navigation in flight ended in a transport error.
C17_Witness ==
    /\ FetchFailed
    /\ last.response[1].status = 0
    /\ inflight = <<>>
    /\ opacity = "1"
    /\ Len(hist) = 1

\* C18 (as claimed): when a traversal surfaces a slot whose record has empty
\* content, a fetch of the record's url is issued without pushState.
C18_EmptyCacheRefetches ==
    (/\ last.op = "popstate"
     /\ hist[pos].state # Null
     /\ hist[pos].state[1].content = EmptyMarkup) =>
        /\ last.fetched
        /\ \E i \in 1..Len(inflight) :
              inflight[i].url = hist[pos].state[1].url /\ ~inflight[i].pushState

\* u and v name the same document: they differ at most in the fragment.
SameDocument(u, v) == [u EXCEPT !.frag = ""] = [v EXCEPT !.frag = ""]

\* The location when the navigateTo() call the step resumes was made.
LocationAtStart == last'.before[1].stack[last'.before[1].pos].url

\* C19: once init() has registered the click listener, a click on a same-host
\* anchor to the current location, or to a fragment of it, is handled like
\* any other: the default is prevented and a
\* fetch of the anchor's url is started with pushState; when that fetch
\* succeeds the content region and title become the fetched ones, a new entry
\* with the anchor's url and index currentIndex + 1 is pushed and made
\* active, and the viewport is scrolled to the origin.
C19_ClickOnCurrentLocationNavigates ==
    [][/\ (/\ listening
           /\ last'.op = "click"
           /\ last'.url.host = Location.host
           /\ SameDocument(last'.url, Location)) =>
             /\ last'.prevented
             /\ last'.fetched
             /\ Len(inflight') = Len(inflight) + 1
             /\ inflight'[Len(inflight')].url = last'.url
             /\ inflight'[Len(inflight')].pushState
       /\ (ClickNavigationCompletes /\ SameDocument(last'.url, LocationAtStart)) =>
             /\ content' = RegionOf(last'.response[1].doc).inner
             /\ title' = last'.response[1].doc.title
             /\ pos' = pos + 1
             /\ Len(hist') = pos'
             /\ hist'[pos'].url = last'.url
             /\ hist'[pos'].state # Null
             /\ hist'[pos'].state[1].index = currentIndex + 1
             /\ currentIndex' = currentIndex + 1
             /\ scroll' = Origin]_vars

\* On /index, scrolled down, a click on the anchor to /index#section has
\* completed: a second entry for the same document, viewport at the origin.
C19_Witness ==
    /\ GotPage
    /\ last.pushState
    /\ last.url = FragmentUrl(IndexUrl)
    /\ Len(last.before[1].stack) = 1
    /\ last.before[1].stack[1].state[1].scrollPosition = <<0, 1>>
    /\ Len(hist) = 2
    /\ pos = 2
    /\ Location = FragmentUrl(IndexUrl)
    /\ hist[2].state[1].index = 1
    /\ scroll = Origin

\* C20: between handlers, whenever the active history slot carries a record
\* with non-empty content, the content region's markup is that content and
\* the document title is that record's title.
C20_ShownIsActiveEntry ==
    HasCache(hist[pos]) =>
        /\ content = hist[pos].state[1].content
        /\ title = hist[pos].state[1].title

\* Two clicks have each pushed an entry and the user has gone back to the
\* first of them, whose page differs from the second's.
C20_Witness ==
    /\ last.op = "popstate"
    /\ last.swapped
    /\ Len(hist) = 3
    /\ pos = 2
    /\ HasCache(hist[2])
    /\ HasCache(hist[3])
    /\ hist[3].state[1].content # hist[2].state[1].content
    /\ hist[3].state[1].title # hist[2].state[1].title
    /\ content = hist[2].state[1].content
    /\ title = hist[2].state[1].title
====
